---- MODULE Spec2Model ----
(***************************************************************************)
(* The toast notification manager (class ToastManager, toast-manager.ts):  *)
(* visible and queued toasts, the capacity maxToasts, the per-toast timer  *)
(* bookkeeping, the subscriber set and the announcer callback, together    *)
(* with the runtime's timer queue (setTimeout / clearTimeout) and its      *)
(* clock (Date.now).                                                       *)
(***************************************************************************)
EXTENDS Integers, Sequences, FiniteSets, TLC

\* ------------------------------------------------------------------ bounds
\* addToast calls in a run of the "queue" regime.
MaxAdds == 3
\* addToast calls in a run of the "subscribers", "expiry" and "announcer" regimes.
FewAdds == 2
\* addToast calls in a run of the "timers" regime.
TimerAdds == 1
\* setMaxToasts is called with n in 1..MaxCap.
MaxCap == 2
\* The duration of the "expiry" regime.
ShortDuration == 1
\* The positive duration of the "timers" regime.
LongDuration == 3

\* ------------------------------------------------------- program constants
\* private maxToasts = 5
DefaultMaxToasts == 5

\* ------------------------------------------------------------------ inputs
ToastVariant == {"success", "error", "warning", "info"}
Callbacks == {"l1", "l2"}
\* An identifier no addToast call ever returned.
UnknownId == 0
Ids == 1..(IF MaxAdds > FewAdds THEN MaxAdds ELSE FewAdds)
None == "none"
Announcer == "announce"

\* A run draws its inputs from one of five bounded regimes:
\*   queue        many toasts of all variants that never expire;
\*   timers       a toast with a long duration, so that its timer is paused
\*                and resumed several times and fires late;
\*   subscribers  few toasts that never expire, two subscribers;
\*   expiry       few toasts with a short duration, one subscriber;
\*   announcer    few toasts that never expire, with an announcer.
\* A duration of 0 stands for a toast that never expires (0 or absent).
Regimes ==
    { [name |-> "queue", adds |-> MaxAdds, variants |-> ToastVariant,
       durations |-> {0}, announce |-> {TRUE}, callbacks |-> {},
       announcer |-> FALSE, maxTime |-> 0],
      [name |-> "timers", adds |-> TimerAdds, variants |-> {"info"},
       durations |-> {0, LongDuration}, announce |-> {TRUE}, callbacks |-> {},
       announcer |-> FALSE, maxTime |-> LongDuration],
      [name |-> "subscribers", adds |-> FewAdds, variants |-> {"info"},
       durations |-> {0}, announce |-> {TRUE}, callbacks |-> Callbacks,
       announcer |-> FALSE, maxTime |-> 0],
      [name |-> "expiry", adds |-> FewAdds, variants |-> {"info"},
       durations |-> {ShortDuration}, announce |-> {TRUE}, callbacks |-> {"l1"},
       announcer |-> FALSE, maxTime |-> ShortDuration + 1],
      [name |-> "announcer", adds |-> FewAdds, variants |-> {"info", "error"},
       durations |-> {0}, announce |-> BOOLEAN, callbacks |-> {},
       announcer |-> TRUE, maxTime |-> 0] }

VARIABLES
    visibleToasts,    \* Toast[]: the toasts on screen, in insertion order
    queuedToasts,     \* Toast[]: the toasts waiting for a free slot
    maxToasts,        \* capacity of visibleToasts
    timers,           \* Map id -> timer handle
    remainingTime,    \* Map id -> time left at the last (re)start or pause
    startTime,        \* Map id -> Date.now() at the last (re)start
    listeners,        \* Set of subscribed callbacks
    announceCallback, \* the registered announcer, or None
    pending,          \* the runtime's timer queue: [h, id, due] per live timer
    now,              \* Date.now()
    nextId,           \* the next identifier crypto.randomUUID() hands out
    unsubs,           \* callbacks for which subscribe has returned an unsubscribe function
    announced,        \* observation: id -> number of announce calls for it
    lastSeen,         \* observation: subscriber -> the sequence it last received
    notified,         \* observation: callback -> calls during the last operation
    running,          \* observation: id -> time its timer has been running
    env               \* the regime the run draws its inputs from

\* The state of the infinite query of useInfiniteData.
VARIABLES
    filters,          \* the filter set the hook was last rendered with
    pages,            \* data.pages: the parsed pages, in fetch order
    pageParams,       \* data.pageParams: the page parameter of each page
    request,          \* the page fetch in flight: <<>> or <<[url, pageParam]>>
    error,            \* the query's error: <<>> or <<[name, message, status]>>
    limit             \* the adapter's private readonly limit, set by its constructor

\* The state of a SmartErrorBoundary and of the ErrorBoundary it renders.
VARIABLES
    maxRetries,       \* the maxRetries prop
    retryCount,       \* the retryCount state as the last render saw it
    updates,          \* setRetryCount updaters queued since the last render
    didCatch,         \* the ErrorBoundary shows the fallback
    resetPending,     \* resetErrorBoundary has queued the boundary's reset
    onRetryCalls,     \* observation: the number of onRetry calls
    onErrorCalls,     \* observation: the number of onError calls
    errorContext      \* observation: errorContext.retryCount of the last onError call

\* The state of a component that uses useTypewriter.
VARIABLES
    text,             \* the text prop
    speed,            \* the speed prop
    autoStart,        \* the autoStart prop
    delayCharacters,  \* the delayCharacters prop (stableDelayChars)
    displayText,      \* the displayText state
    status,           \* the status state and statusRef.current, set together
    indexRef,         \* indexRef.current
    timeoutRef,       \* timeoutRef.current: a timer handle, or NoTimer for null
    textRef,          \* textRef.current
    charTimers        \* the runtime's timer queue: [h, delay] per live timer

toastVars == <<visibleToasts, queuedToasts, maxToasts, timers, remainingTime, startTime,
               listeners, announceCallback, pending, now, nextId, unsubs, announced,
               lastSeen, notified, running, env>>
queryVars == <<filters, pages, pageParams, request, error, limit>>
boundaryVars == <<maxRetries, retryCount, updates, didCatch, resetPending, onRetryCalls,
                  onErrorCalls, errorContext>>
typewriterVars == <<text, speed, autoStart, delayCharacters, displayText, status,
                    indexRef, timeoutRef, textRef, charTimers>>
uiVars == <<boundaryVars, typewriterVars>>
vars == <<toastVars, queryVars, uiVars>>

\* ------------------------------------------------------------ Map helpers
MapSet(m, k, v) == [x \in DOMAIN m \cup {k} |-> IF x = k THEN v ELSE m[x]]
MapDelete(m, k) == [x \in DOMAIN m \ {k} |-> m[x]]
EmptyMap == [x \in {} |-> 0]
\* Array.prototype.filter((t) => t.id !== id)
FilterOut(seq, id) == SelectSeq(seq, LAMBDA t : t.id # id)
IdsOf(seq) == {seq[i].id : i \in 1..Len(seq)}

\* The manager's fields (and what its callbacks observe) at the start of an
\* operation, as one record the methods below transform.
Mgr ==
    [visibleToasts |-> visibleToasts, queuedToasts |-> queuedToasts,
     maxToasts |-> maxToasts, timers |-> timers, remainingTime |-> remainingTime,
     startTime |-> startTime, listeners |-> listeners,
     announceCallback |-> announceCallback, pending |-> pending,
     announced |-> announced, lastSeen |-> lastSeen,
     notified |-> [c \in Callbacks |-> 0]]

\* ---------------------------------------------------------------- runtime
\* setTimeout returns a handle that no live timer and no stored handle has:
\* <<id, k>> with the least k that is free.
UsedHandles(s) == {t.h : t \in s.pending} \cup {s.timers[k] : k \in DOMAIN s.timers}
FreshHandle(s, id) ==
    LET k == CHOOSE k \in 1..(Cardinality(UsedHandles(s)) + 1) :
                 /\ <<id, k>> \notin UsedHandles(s)
                 /\ \A g \in 1..(k - 1) : <<id, g>> \in UsedHandles(s)
    IN  <<id, k>>
\* Faulty variant of setTimeout: the delay is counted from time 0, not from
\* the moment of the call.
setTimeoutFromZero(s, h, id, delay) ==
    [s EXCEPT !.pending = @ \cup {[h |-> h, id |-> id, due |-> delay]}]
\* setTimeout(() => this.dismissToast(id), delay) with handle h
setTimeout(s, h, id, delay) ==
    [s EXCEPT !.pending = @ \cup {[h |-> h, id |-> id, due |-> now + delay]}]
\* clearTimeout(h): a handle that is not live is ignored
clearTimeout(s, h) == [s EXCEPT !.pending = {t \in @ : t.h # h}]

\* ---------------------------------------------------------------- methods
\* Faulty variant of notify: no subscriber is called.
notifyNobody(s) == s

\* private notify()
notify(s) ==
    [s EXCEPT !.lastSeen = [c \in Callbacks |->
                               IF c \in s.listeners THEN s.visibleToasts ELSE @[c]],
              !.notified = [c \in Callbacks |->
                               IF c \in s.listeners THEN @[c] + 1 ELSE @[c]]]

\* private announceToast(toast)
announceToast(s, toast) ==
    IF toast.announceToScreenReader /\ s.announceCallback # None
    THEN [s EXCEPT !.announced[toast.id] = @ + 1]
    ELSE s

\* private showToast(toast)
showToast(s, toast) ==
    LET s1 == [s EXCEPT !.visibleToasts = Append(@, toast)]
        s2 == announceToast(s1, toast)
        s3 == notify(s2)
        h  == FreshHandle(s3, toast.id)
    IN  IF toast.duration > 0
        THEN [setTimeout(s3, h, toast.id, toast.duration) EXCEPT
                 !.startTime = MapSet(@, toast.id, now),
                 !.remainingTime = MapSet(@, toast.id, toast.duration),
                 !.timers = MapSet(@, toast.id, h)]
        ELSE s3

\* Faulty variants of processQueue: one that promotes although no slot is
\* free, one that shows the front of the queue without removing it.
RECURSIVE processQueueIgnoringCap(_)
processQueueIgnoringCap(s) ==
    IF Len(s.queuedToasts) > 0
    THEN processQueueIgnoringCap(showToast([s EXCEPT !.queuedToasts = Tail(@)],
                                           Head(s.queuedToasts)))
    ELSE s
RECURSIVE processQueueKeepsHead(_)
processQueueKeepsHead(s) ==
    IF Len(s.visibleToasts) < s.maxToasts /\ Len(s.queuedToasts) > 0
    THEN processQueueKeepsHead(showToast(s, Head(s.queuedToasts)))
    ELSE s

\* private processQueue()
RECURSIVE processQueue(_)
processQueue(s) ==
    IF Len(s.visibleToasts) < s.maxToasts /\ Len(s.queuedToasts) > 0
    THEN processQueue(showToast([s EXCEPT !.queuedToasts = Tail(@)],
                                Head(s.queuedToasts)))
    ELSE s

\* Faulty variants of addToast: one whose capacity test is off by one, one
\* that queues an error toast at the back like any other, one that drops a
\* toast for which no slot is free.
addToastDropsWhenFull(s, newToast) ==
    IF Len(s.visibleToasts) < s.maxToasts THEN showToast(s, newToast) ELSE s
addToastOffByOne(s, newToast) ==
    IF Len(s.visibleToasts) > s.maxToasts
    THEN announceToast(
             [s EXCEPT !.queuedToasts =
                 IF newToast.variant = "error"
                 THEN <<newToast>> \o @
                 ELSE Append(@, newToast)],
             newToast)
    ELSE showToast(s, newToast)
addToastNoPriority(s, newToast) ==
    IF Len(s.visibleToasts) >= s.maxToasts
    THEN announceToast([s EXCEPT !.queuedToasts = Append(@, newToast)], newToast)
    ELSE showToast(s, newToast)

\* addToast(toast): the toast already carries its fresh id
addToast(s, newToast) ==
    IF Len(s.visibleToasts) >= s.maxToasts
    THEN announceToast(
             [s EXCEPT !.queuedToasts =
                 IF newToast.variant = "error"
                 THEN <<newToast>> \o @
                 ELSE Append(@, newToast)],
             newToast)
    ELSE showToast(s, newToast)

\* Faulty variants of dismissToast: one that does not backfill from the
\* queue, one that keeps the remaining time of the dismissed toast.
dismissToastNoBackfill(s, id) ==
    LET s1 == IF id \in DOMAIN s.timers
              THEN [clearTimeout(s, s.timers[id]) EXCEPT !.timers = MapDelete(@, id)]
              ELSE s
        s2 == [s1 EXCEPT !.remainingTime = MapDelete(@, id),
                         !.startTime = MapDelete(@, id),
                         !.visibleToasts = FilterOut(@, id),
                         !.queuedToasts = FilterOut(@, id)]
    IN  notify(s2)
dismissToastKeepsRemaining(s, id) ==
    LET s1 == IF id \in DOMAIN s.timers
              THEN [clearTimeout(s, s.timers[id]) EXCEPT !.timers = MapDelete(@, id)]
              ELSE s
        s2 == [s1 EXCEPT !.startTime = MapDelete(@, id),
                         !.visibleToasts = FilterOut(@, id),
                         !.queuedToasts = FilterOut(@, id)]
    IN  processQueue(notify(s2))

\* dismissToast(id)
dismissToast(s, id) ==
    LET s1 == IF id \in DOMAIN s.timers
              THEN [clearTimeout(s, s.timers[id]) EXCEPT !.timers = MapDelete(@, id)]
              ELSE s
        s2 == [s1 EXCEPT !.remainingTime = MapDelete(@, id),
                         !.startTime = MapDelete(@, id),
                         !.visibleToasts = FilterOut(@, id),
                         !.queuedToasts = FilterOut(@, id)]
    IN  processQueue(notify(s2))

\* Faulty variant of pauseToast: the handle is forgotten without cancelling
\* the timer.
pauseToastNoClear(s, id) ==
    IF id \notin DOMAIN s.timers
    THEN s
    ELSE LET s1 == IF id \in DOMAIN s.startTime /\ id \in DOMAIN s.remainingTime
                   THEN LET elapsed == now - s.startTime[id]
                            r == s.remainingTime[id] - elapsed
                        IN  [s EXCEPT !.remainingTime =
                                MapSet(@, id, IF r > 0 THEN r ELSE 0)]
                   ELSE s
         IN  [s1 EXCEPT !.timers = MapDelete(@, id)]

\* pauseToast(id)
pauseToast(s, id) ==
    IF id \notin DOMAIN s.timers
    THEN s
    ELSE LET s1 == IF id \in DOMAIN s.startTime /\ id \in DOMAIN s.remainingTime
                   THEN LET elapsed == now - s.startTime[id]
                            r == s.remainingTime[id] - elapsed
                        IN  [s EXCEPT !.remainingTime =
                                MapSet(@, id, IF r > 0 THEN r ELSE 0)]
                   ELSE s
         IN  [clearTimeout(s1, s.timers[id]) EXCEPT !.timers = MapDelete(@, id)]

\* Faulty variant of resumeToast: the start time is not reset, so the next
\* pause counts the time before the resume a second time.
resumeToastKeepsStart(s, id) ==
    IF id \in DOMAIN s.timers
    THEN s
    ELSE IF id \notin DOMAIN s.remainingTime \/ s.remainingTime[id] <= 0
    THEN s
    ELSE LET h == FreshHandle(s, id)
         IN  [setTimeout(s, h, id, s.remainingTime[id]) EXCEPT
                 !.timers = MapSet(@, id, h)]

\* resumeToast(id)
resumeToast(s, id) ==
    IF id \in DOMAIN s.timers
    THEN s
    ELSE IF id \notin DOMAIN s.remainingTime \/ s.remainingTime[id] <= 0
    THEN s
    ELSE LET h == FreshHandle(s, id)
         IN  [setTimeout(s, h, id, s.remainingTime[id]) EXCEPT
                 !.startTime = MapSet(@, id, now),
                 !.timers = MapSet(@, id, h)]

\* Faulty variant of dismissAll: the map of timers is emptied without
\* cancelling the timers.
dismissAllNoClear(s) ==
    notify([s EXCEPT !.timers = EmptyMap,
                     !.remainingTime = EmptyMap,
                     !.startTime = EmptyMap,
                     !.visibleToasts = <<>>,
                     !.queuedToasts = <<>>])

\* dismissAll()
dismissAll(s) ==
    notify([s EXCEPT !.pending = {t \in @ : \A k \in DOMAIN s.timers : s.timers[k] # t.h},
                     !.timers = EmptyMap,
                     !.remainingTime = EmptyMap,
                     !.startTime = EmptyMap,
                     !.visibleToasts = <<>>,
                     !.queuedToasts = <<>>])

\* Faulty variants of setMaxToasts: one that does not process the queue, one
\* that drops the visible toasts beyond the new capacity.
setMaxToastsNoProcess(s, max) == [s EXCEPT !.maxToasts = max]
setMaxToastsEvicts(s, max) ==
    processQueue([s EXCEPT !.maxToasts = max,
                           !.visibleToasts =
                               SubSeq(@, 1, IF Len(@) < max THEN Len(@) ELSE max)])

\* setMaxToasts(max)
setMaxToasts(s, max) == processQueue([s EXCEPT !.maxToasts = max])

\* Faulty variant of subscribe: the new subscriber is not called at once.
subscribeNoCall(s, listener) == [s EXCEPT !.listeners = @ \cup {listener}]

\* subscribe(listener)
subscribe(s, listener) ==
    [s EXCEPT !.listeners = @ \cup {listener},
              !.lastSeen[listener] = s.visibleToasts,
              !.notified[listener] = @ + 1]

\* the function subscribe returns: () => this.listeners.delete(listener)
unsubscribe(s, listener) == [s EXCEPT !.listeners = @ \ {listener}]

\* getStats()
getStats(s) == [visible |-> Len(s.visibleToasts), queued |-> Len(s.queuedToasts),
                maxToasts |-> s.maxToasts]

\* ------------------------------------------- paginated fetch: the adapter
\* The page size the adapter is constructed with (20 in useInfiniteProducts).
PageSize == 2
\* The largest total a response reports.
MaxTotal == 5

\* initialPageParam = 0
initialPageParam == 0
\* The value undefined: a missing property, or no next page parameter. NaN,
\* the sum of a number and undefined, compares like it and is written the same.
Undefined == -1
\* What Array.prototype.flatMap makes of a page whose items are undefined.
UndefinedItems == <<Undefined>>

\* a + b and a < b of JavaScript, on numbers and undefined
JsAdd(a, b) == IF a = Undefined \/ b = Undefined THEN Undefined ELSE a + b
JsLess(a, b) == a # Undefined /\ b # Undefined /\ a < b
\* if (filters.key): the property is there and is not the empty string
Truthy(f, key) == key \in DOMAIN f /\ f[key] # ""
\* URLSearchParams.toString() on the values of the filter sets below
formEncode(str) == IF str = "red phone" THEN "red+phone" ELSE str

\* InternalProductFilters: search and category, each optional
NoFilters == [key \in {} |-> ""]
FilterSets ==
    { NoFilters,
      [search |-> "phone"],
      [search |-> "red phone"],
      [category |-> "smartphones"],
      [search |-> "phone", category |-> "smartphones"],
      [search |-> "", category |-> "smartphones"],
      [search |-> "", category |-> ""] }

\* Faulty variant of buildURL: the category wins over the search.
buildURLCategoryFirst(f, skip) ==
    LET params == <<[key |-> "limit", value |-> limit], [key |-> "skip", value |-> skip]>>
    IN  IF Truthy(f, "category")
        THEN [path |-> <<"products", "category", f.category>>, params |-> params]
        ELSE IF Truthy(f, "search")
        THEN [path |-> <<"products", "search">>,
              params |-> Append(params, [key |-> "q", value |-> formEncode(f.search)])]
        ELSE [path |-> <<"products">>, params |-> params]

\* buildURL(filters, skip): the path segments and the query parameters, in the
\* order URLSearchParams holds them
buildURL(f, skip) ==
    LET params == <<[key |-> "limit", value |-> limit], [key |-> "skip", value |-> skip]>>
    IN  IF Truthy(f, "search")
        THEN [path |-> <<"products", "search">>,
              params |-> Append(params, [key |-> "q", value |-> formEncode(f.search)])]
        ELSE IF Truthy(f, "category")
        THEN [path |-> <<"products", "category", f.category>>, params |-> params]
        ELSE [path |-> <<"products">>, params |-> params]

\* parseResponse(response) throws a TypeError when it reads a property of null.
parseResponseThrows(response) == response.isNull

\* parseResponse(response)
parseResponse(response) ==
    [items |-> response.products,
     total |-> response.total,
     hasNextPage |-> JsLess(JsAdd(response.skip, response.limit), response.total)]

\* Faulty variant of getNextPageParam: the next offset is the number of items
\* fetched so far.
getNextPageParamByItems(lastPage, allPages) ==
    LET count[i \in 0..Len(allPages)] ==
            IF i = 0 THEN 0 ELSE count[i - 1] + Len(allPages[i].items)
        nextSkip == count[Len(allPages)]
    IN  IF JsLess(nextSkip, lastPage.total) THEN nextSkip ELSE Undefined

\* getNextPageParam(lastPage, allPages)
getNextPageParam(lastPage, allPages) ==
    LET nextSkip == Len(allPages) * limit
    IN  IF JsLess(nextSkip, lastPage.total) THEN nextSkip ELSE Undefined

\* ------------------------------------------ paginated fetch: the API client
\* The products a backend of offset pagination returns from offset skip on.
Items(skip, n) == [i \in 1..n |-> skip + i]
\* A response body of the assumed shape, and one that is null.
Shaped(products, total, skip, lim) ==
    [isNull |-> FALSE, products |-> products, total |-> total, skip |-> skip,
     limit |-> lim]
NullResponse == [Shaped(UndefinedItems, Undefined, Undefined, Undefined) EXCEPT !.isNull = TRUE]
\* The bodies of the assumed shape the backend may answer a request from
\* offset skip with: any number of products up to the page size, any total,
\* and as limit what it was asked for or any lower number it applied.
ShapedResponses(skip) ==
    {Shaped(Items(skip, n), total, skip, lim) :
        n \in 0..PageSize, total \in 0..MaxTotal, lim \in 0..PageSize}
\* Bodies without the assumed shape: a property is missing, all are, or the
\* body is null.
MalformedResponses(skip) ==
    { Shaped(UndefinedItems, MaxTotal, skip, PageSize),
      Shaped(Items(skip, 1), Undefined, skip, PageSize),
      Shaped(Items(skip, 1), MaxTotal, Undefined, PageSize),
      Shaped(Items(skip, 1), MaxTotal, skip, Undefined),
      Shaped(UndefinedItems, Undefined, Undefined, Undefined),
      NullResponse }
\* What the network does with a request: it answers with a success status
\* and a JSON body, with a success status and a body that is no JSON, with an
\* error status, not at all, or not within apiConfig.timeout.
Outcomes(skip) ==
    {[kind |-> "ok", body |-> b, status |-> 200, statusText |-> "OK"] :
        b \in ShapedResponses(skip) \cup MalformedResponses(skip)}
    \cup {[kind |-> "badjson", body |-> NullResponse, status |-> 200, statusText |-> "OK"],
          [kind |-> "http", body |-> NullResponse, status |-> 404, statusText |-> "Not Found"],
          [kind |-> "http", body |-> NullResponse, status |-> 500,
           statusText |-> "Internal Server Error"],
          [kind |-> "network", body |-> NullResponse, status |-> Undefined,
           statusText |-> "Failed to fetch"],
          [kind |-> "timeout", body |-> NullResponse, status |-> Undefined,
           statusText |-> ""]}

\* new APIError(message, status)
APIError(message, httpStatus) ==
    [name |-> "APIError", message |-> message, status |-> httpStatus]

\* baseFetch(path, options): the promise's outcome, a value or a thrown error
baseFetch(path, outcome) ==
    LET thrown(e) == [ok |-> FALSE, data |-> NullResponse, error |-> e]
    IN  CASE outcome.kind = "ok" ->
                 [ok |-> TRUE, data |-> outcome.body, error |-> APIError("", Undefined)]
          [] outcome.kind = "badjson" ->
                 thrown([name |-> "SyntaxError", message |-> "Unexpected token",
                         status |-> Undefined])
          [] outcome.kind = "http" ->
                 thrown(APIError("API request failed: " \o outcome.statusText,
                                 outcome.status))
          [] outcome.kind = "timeout" -> thrown(APIError("Request timeout", 408))
          [] outcome.kind = "network" -> thrown(APIError(outcome.statusText, Undefined))

\* fetcher(path)
fetcher(path, outcome) == baseFetch(path, outcome)

\* ------------------------------------------- paginated fetch: the driver
\* Faulty variant of queryFn: a failed fetch is turned into an empty page.
queryFnSwallowsError(f, pageParam, outcome) ==
    LET response == fetcher(buildURL(f, pageParam), outcome)
    IN  [ok |-> TRUE,
         page |-> IF response.ok /\ ~parseResponseThrows(response.data)
                  THEN parseResponse(response.data)
                  ELSE [items |-> <<>>, total |-> 0, hasNextPage |-> FALSE],
         error |-> response.error]

\* queryFn({pageParam}): the promise's outcome, a page or a thrown error
queryFn(f, pageParam, outcome) ==
    LET url      == buildURL(f, pageParam)
        response == fetcher(url, outcome)
        noPage   == [items |-> <<>>, total |-> 0, hasNextPage |-> FALSE]
    IN  IF ~response.ok
        THEN [ok |-> FALSE, page |-> noPage, error |-> response.error]
        ELSE IF parseResponseThrows(response.data)
        THEN [ok |-> FALSE, page |-> noPage,
              error |-> [name |-> "TypeError",
                         message |-> "Cannot read properties of null",
                         status |-> Undefined]]
        ELSE [ok |-> TRUE, page |-> parseResponse(response.data), error |-> response.error]

\* data.pages.flatMap((page) => page.items)
RECURSIVE flatMapItems(_)
flatMapItems(ps) ==
    IF ps = <<>> THEN <<>> ELSE Head(ps).items \o flatMapItems(Tail(ps))

\* Faulty variant of select: the total is the first page's.
selectFirstTotal(data) ==
    [pages |-> data.pages, pageParams |-> data.pageParams,
     items |-> flatMapItems(data.pages),
     total |-> IF Len(data.pages) = 0 \/ data.pages[1].total = Undefined
               THEN 0 ELSE data.pages[1].total,
     hasNextPage |-> Len(data.pages) > 0 /\ data.pages[Len(data.pages)].hasNextPage]

\* select(data): the aggregate view
select(data) ==
    LET n == Len(data.pages)
    IN  [pages |-> data.pages, pageParams |-> data.pageParams,
         items |-> flatMapItems(data.pages),
         total |-> IF n = 0 \/ data.pages[n].total = Undefined THEN 0 ELSE data.pages[n].total,
         hasNextPage |-> n > 0 /\ data.pages[n].hasNextPage]

\* The infinite query's data, and the query before its first fetch.
Data == [pages |-> pages, pageParams |-> pageParams]
InitQuery(f) ==
    /\ filters = f
    /\ pages = <<>>
    /\ pageParams = <<>>
    /\ request = <<>>
    /\ error = <<>>

\* ------------------------------------------------------ SmartErrorBoundary
\* maxRetries = 3 unless the prop is given
DefaultMaxRetries == 3
\* The accepted resets one render's handlers handle at most before React
\* renders again.
MaxBatch == 3

\* What handleReset reads and writes: the retryCount of the render whose
\* closure it is, the queue of state updaters, and the onRetry prop.
Boundary == [retryCount |-> retryCount, updates |-> updates, onRetryCalls |-> onRetryCalls]

\* The errors the child throws at most in a run.
MaxErrors == 4

\* handleError(error, errorInfo): what onError is called with
handleError(count) == [context |-> [retryCount |-> count]]

\* handleReset(): setRetryCount((prev) => prev + 1) queues an updater; the
\* test reads the retryCount of the render that made the handler.
handleReset(b) ==
    IF b.retryCount < maxRetries
    THEN [b EXCEPT !.updates = @ + 1, !.onRetryCalls = @ + 1]
    ELSE b

\* DefaultErrorFallback: canRetry, and the number the button shows
canRetry == retryCount < maxRetries
attemptsLeft == maxRetries - retryCount

\* The boundary as mounted with the given maxRetries, its child rendered.
MountBoundary(max) ==
    /\ maxRetries = max
    /\ retryCount = 0
    /\ updates = 0
    /\ didCatch = FALSE
    /\ resetPending = FALSE
    /\ onRetryCalls = 0
    /\ onErrorCalls = 0
    /\ errorContext = Undefined

\* ------------------------------------------------------------ useTypewriter
\* The longest text typed.
TextLen == 2
\* A text is the sequence of its characters.
Chars == {"a", "."}
Texts == UNION {[1..n -> Chars] : n \in 0..TextLen}
\* The speed prop, in units of time.
Speeds == {1, 2}
DEFAULT_DELAY_CHARACTERS == {".", ",", "!", "?"}
DelayCharacterSets == {DEFAULT_DELAY_CHARACTERS, {"a"}}
\* punctuationDelayMultiplier = 2
punctuationDelayMultiplier == 2
TypingStatus == {"idle", "typing", "paused", "completed"}
\* timeoutRef.current = null
NoTimer == 0

\* The props of the render whose callbacks run.
Props == [text |-> text, speed |-> speed, autoStart |-> autoStart,
          delayCharacters |-> delayCharacters]
AllProps == [text : Texts, speed : Speeds, autoStart : BOOLEAN,
             delayCharacters : DelayCharacterSets]
\* The hook's state and refs, and the runtime's timers, as one record.
Hook == [displayText |-> displayText, status |-> status, indexRef |-> indexRef,
         timeoutRef |-> timeoutRef, textRef |-> textRef, charTimers |-> charTimers]

\* setTimeout hands out a handle that no live timer has and the ref does not
\* hold.
FreshTimer(s) ==
    CHOOSE h \in 1..(Cardinality(s.charTimers) + 2) :
        /\ h # s.timeoutRef
        /\ \A u \in s.charTimers : u.h # h
        /\ \A g \in 1..(h - 1) : g = s.timeoutRef \/ \E u \in s.charTimers : u.h = g

\* typeChar()
typeChar(s, p) ==
    IF s.indexRef >= Len(s.textRef)
    THEN [s EXCEPT !.status = "completed"]
    ELSE LET char  == s.textRef[s.indexRef + 1]
             delay == IF char \in p.delayCharacters
                      THEN p.speed * punctuationDelayMultiplier
                      ELSE p.speed
             s1    == [s EXCEPT !.displayText = SubSeq(s.textRef, 1, s.indexRef + 1),
                                !.indexRef = @ + 1]
             h     == FreshTimer(s1)
         IN  IF s1.status = "paused"
             THEN s1
             ELSE [s1 EXCEPT !.timeoutRef = h,
                             !.charTimers = @ \cup {[h |-> h, delay |-> delay]}]

\* if (timeoutRef.current) { clearTimeout(timeoutRef.current); timeoutRef.current = null; }
clearTimeoutRef(s) ==
    IF s.timeoutRef # NoTimer
    THEN [s EXCEPT !.charTimers = {u \in @ : u.h # s.timeoutRef}, !.timeoutRef = NoTimer]
    ELSE s

\* startTyping()
startTyping(s, p) ==
    typeChar([clearTimeoutRef(s) EXCEPT !.indexRef = 0,
                                        !.textRef = p.text,
                                        !.displayText = <<>>,
                                        !.status = "typing"], p)

\* pauseTyping()
pauseTyping(s) ==
    IF s.status # "typing"
    THEN s
    ELSE clearTimeoutRef([s EXCEPT !.status = "paused"])

\* resumeTyping()
resumeTyping(s, p) ==
    IF s.status # "paused"
    THEN s
    ELSE typeChar([s EXCEPT !.status = "typing"], p)

\* reset()
reset(s) ==
    [clearTimeoutRef(s) EXCEPT !.indexRef = 0, !.displayText = <<>>, !.status = "idle"]

\* The effect's cleanup: the timer is cancelled, the ref keeps its handle.
effectCleanup(s) ==
    IF s.timeoutRef # NoTimer
    THEN [s EXCEPT !.charTimers = {u \in @ : u.h # s.timeoutRef}]
    ELSE s

\* The effect: if (autoStart) startTyping()
effect(s, p) == IF p.autoStart THEN startTyping(s, p) ELSE s

\* The hook's state after the render with props p has been committed.
CommitHook(s, p) ==
    /\ text = p.text
    /\ speed = p.speed
    /\ autoStart = p.autoStart
    /\ delayCharacters = p.delayCharacters
    /\ displayText = s.displayText
    /\ status = s.status
    /\ indexRef = s.indexRef
    /\ timeoutRef = s.timeoutRef
    /\ textRef = s.textRef
    /\ charTimers = s.charTimers

\* The hook as mounted with props p: the first render, then the effect.
MountTypewriter(p) ==
    CommitHook(effect([displayText |-> <<>>, status |-> "idle", indexRef |-> 0,
                       timeoutRef |-> NoTimer, textRef |-> p.text, charTimers |-> {}],
                      p), p)

\* Elsewhere on the page a boundary with the default maxRetries and a hook
\* that was given no text and does not start by itself.
MountUI ==
    /\ MountBoundary(DefaultMaxRetries)
    /\ MountTypewriter([text |-> <<>>, speed |-> 1, autoStart |-> FALSE,
                        delayCharacters |-> DEFAULT_DELAY_CHARACTERS])

\* ---------------------------------------------------------------- actions
\* The state after an operation that left the manager as s.
Commit(s) ==
    /\ visibleToasts' = s.visibleToasts
    /\ queuedToasts' = s.queuedToasts
    /\ maxToasts' = s.maxToasts
    /\ timers' = s.timers
    /\ remainingTime' = s.remainingTime
    /\ startTime' = s.startTime
    /\ listeners' = s.listeners
    /\ announceCallback' = s.announceCallback
    /\ pending' = s.pending
    /\ announced' = s.announced
    /\ lastSeen' = s.lastSeen
    /\ notified' = s.notified

Add ==
    \E v \in env.variants, d \in env.durations, a \in env.announce :
        /\ nextId <= env.adds
        /\ Commit(addToast(Mgr, [id |-> nextId, variant |-> v, duration |-> d,
                                 announceToScreenReader |-> a]))
        /\ nextId' = nextId + 1
        /\ UNCHANGED <<now, unsubs, running, env, queryVars, uiVars>>

Dismiss ==
    \E id \in {UnknownId} \cup Ids :
        /\ id < nextId
        /\ Commit(dismissToast(Mgr, id))
        /\ UNCHANGED <<now, nextId, unsubs, running, env, queryVars, uiVars>>

\* A timer of the runtime's queue that is due runs its callback.
Expire ==
    \E t \in pending :
        /\ t.due <= now
        /\ \A u \in pending : t.due <= u.due
        /\ Commit(dismissToast([Mgr EXCEPT !.pending = @ \ {t}], t.id))
        /\ UNCHANGED <<now, nextId, unsubs, running, env, queryVars, uiVars>>

Pause ==
    \E id \in {UnknownId} \cup Ids :
        /\ id < nextId
        /\ Commit(pauseToast(Mgr, id))
        /\ UNCHANGED <<now, nextId, unsubs, running, env, queryVars, uiVars>>

Resume ==
    \E id \in {UnknownId} \cup Ids :
        /\ id < nextId
        /\ Commit(resumeToast(Mgr, id))
        /\ UNCHANGED <<now, nextId, unsubs, running, env, queryVars, uiVars>>

DismissAll ==
    /\ Commit(dismissAll(Mgr))
    /\ UNCHANGED <<now, nextId, unsubs, running, env, queryVars, uiVars>>

SetMaxToasts ==
    \E n \in 1..MaxCap :
        /\ Commit(setMaxToasts(Mgr, n))
        /\ UNCHANGED <<now, nextId, unsubs, running, env, queryVars, uiVars>>

SetAnnouncer ==
    /\ env.announcer
    /\ Commit([Mgr EXCEPT !.announceCallback = Announcer])
    /\ UNCHANGED <<now, nextId, unsubs, running, env, queryVars, uiVars>>

Subscribe ==
    \E c \in env.callbacks :
        /\ Commit(subscribe(Mgr, c))
        /\ unsubs' = unsubs \cup {c}
        /\ UNCHANGED <<now, nextId, running, env, queryVars, uiVars>>

\* An unsubscribe function is called, possibly not for the first time. What
\* the callback last received is forgotten with its subscription.
Unsubscribe ==
    \E c \in unsubs :
        /\ Commit([unsubscribe(Mgr, c) EXCEPT !.lastSeen[c] = <<>>])
        /\ UNCHANGED <<now, nextId, unsubs, running, env, queryVars, uiVars>>

\* Time passes; running timers run.
Tick ==
    /\ now < env.maxTime
    /\ now' = now + 1
    /\ running' = [i \in Ids |->
                      IF \E t \in pending : t.id = i THEN running[i] + 1 ELSE running[i]]
    /\ notified' = [c \in Callbacks |-> 0]
    /\ UNCHANGED <<visibleToasts, queuedToasts, maxToasts, timers, remainingTime,
                   startTime, listeners, announceCallback, pending, nextId,
                   unsubs, announced, lastSeen, env, queryVars, uiVars>>

InitManager ==
    /\ visibleToasts = <<>>
    /\ queuedToasts = <<>>
    /\ maxToasts = DefaultMaxToasts
    /\ timers = EmptyMap
    /\ remainingTime = EmptyMap
    /\ startTime = EmptyMap
    /\ listeners = {}
    /\ announceCallback = None
    /\ pending = {}
    /\ now = 0
    /\ nextId = 1
    /\ unsubs = {}
    /\ announced = [i \in Ids |-> 0]
    /\ lastSeen = [c \in Callbacks |-> <<>>]
    /\ notified = [c \in Callbacks |-> 0]
    /\ running = [i \in Ids |-> 0]

Init ==
    /\ InitManager
    /\ env \in Regimes
    /\ InitQuery(NoFilters)
    /\ limit = PageSize
    /\ MountUI

Next ==
    \/ Add
    \/ Dismiss
    \/ Expire
    \/ Pause
    \/ Resume
    \/ DismissAll
    \/ SetMaxToasts
    \/ SetAnnouncer
    \/ Subscribe
    \/ Unsubscribe
    \/ Tick

Spec == Init /\ [][Next]_vars

\* ------------------------------------- paginated fetch: the query's steps
\* The query fetches its first page: on mount, and again after a failure.
FetchFirstPage ==
    /\ pages = <<>>
    /\ request = <<>>
    /\ request' = <<[url |-> buildURL(filters, initialPageParam),
                     pageParam |-> initialPageParam]>>
    /\ error' = <<>>
    /\ UNCHANGED <<filters, pages, pageParams, limit, toastVars, uiVars>>

\* Faulty variant of fetchNextPage: the request is issued whatever
\* getNextPageParam returns.
FetchNextPageUnguarded ==
    /\ pages # <<>>
    /\ request = <<>>
    /\ request' = <<[url |-> buildURL(filters, Len(pages) * limit),
                     pageParam |-> Len(pages) * limit]>>
    /\ UNCHANGED <<filters, pages, pageParams, error, limit, toastVars, uiVars>>

\* fetchNextPage(): nothing is fetched when getNextPageParam returns undefined
\* for the pages held. One page fetch completes before the next is requested.
FetchNextPage ==
    /\ pages # <<>>
    /\ request = <<>>
    /\ LET pageParam == getNextPageParam(pages[Len(pages)], pages)
       IN  IF pageParam = Undefined
           THEN UNCHANGED request
           ELSE request' = <<[url |-> buildURL(filters, pageParam),
                              pageParam |-> pageParam]>>
    /\ UNCHANGED <<filters, pages, pageParams, error, limit, toastVars, uiVars>>

\* The promise of queryFn resolves: the page is appended.
Resolve ==
    /\ request # <<>>
    /\ \E outcome \in Outcomes(request[1].pageParam) :
           LET result == queryFn(filters, request[1].pageParam, outcome)
           IN  /\ result.ok
               /\ pages' = Append(pages, result.page)
               /\ pageParams' = Append(pageParams, request[1].pageParam)
    /\ request' = <<>>
    /\ error' = <<>>
    /\ UNCHANGED <<filters, limit, toastVars, uiVars>>

\* The promise of queryFn rejects: the error is kept, the data stay.
Reject ==
    /\ request # <<>>
    /\ \E outcome \in Outcomes(request[1].pageParam) :
           LET result == queryFn(filters, request[1].pageParam, outcome)
           IN  /\ ~result.ok
               /\ error' = <<result.error>>
    /\ request' = <<>>
    /\ UNCHANGED <<filters, pages, pageParams, limit, toastVars, uiVars>>

\* The hook is rendered with another filter set: another query key, whose
\* query holds no data yet. What was in flight is no longer this query's.
SetFilters ==
    \E f \in FilterSets \ {filters} :
        /\ filters' = f
        /\ pages' = <<>>
        /\ pageParams' = <<>>
        /\ request' = <<>>
        /\ error' = <<>>
        /\ UNCHANGED <<limit, toastVars, uiVars>>

\* The hook is mounted with any filter set; no toast is shown meanwhile.
PageInit ==
    /\ InitManager
    /\ env = CHOOSE r \in Regimes : r.name = "queue"
    /\ \E f \in FilterSets : InitQuery(f)
    /\ limit = PageSize
    /\ MountUI

PageNext ==
    \/ FetchFirstPage
    \/ FetchNextPage
    \/ Resolve
    \/ Reject
    \/ SetFilters

PageSpec == PageInit /\ [][PageNext]_vars

\* ---------------------------- paginated fetch against a backend that is sound
\* The adapter is constructed with any page size its constructor takes; the
\* constructor checks nothing, so 0 is one of them.
TermInit ==
    /\ InitManager
    /\ env = CHOOSE r \in Regimes : r.name = "queue"
    /\ \E f \in FilterSets : InitQuery(f)
    /\ limit \in 0..PageSize
    /\ MountUI

\* The pages a run holds at most: one more than any page size of at least 1
\* needs for the largest total.
MaxPages == MaxTotal + 1

TermFetchNextPage ==
    /\ Len(pages) < MaxPages
    /\ FetchNextPage

\* The backend answers every request, reports the same total T each time and
\* returns the products from the requested offset on, at most limit of them.
TermResolve ==
    /\ Resolve
    /\ LET n    == Len(pages')
           page == pages'[n]
           skip == pageParams'[n]
           T    == pages'[1].total
           rest == IF T > skip THEN T - skip ELSE 0
       IN  /\ T \in 0..MaxTotal
           /\ page.total = T
           /\ page.items = Items(skip, IF rest < limit THEN rest ELSE limit)
           /\ page.hasNextPage = (skip + Len(page.items) < T)

TermNext ==
    \/ FetchFirstPage
    \/ TermFetchNextPage
    \/ TermResolve

TermSpec == TermInit /\ [][TermNext]_vars

\* --------------------------------------------- SmartErrorBoundary: its steps
\* The boundary is mounted with any maxRetries up to the default.
BoundaryInit ==
    /\ InitManager
    /\ env = CHOOSE r \in Regimes : r.name = "queue"
    /\ InitQuery(NoFilters)
    /\ limit = PageSize
    /\ MountTypewriter([text |-> <<>>, speed |-> 1, autoStart |-> FALSE,
                        delayCharacters |-> DEFAULT_DELAY_CHARACTERS])
    /\ \E max \in 0..DefaultMaxRetries : MountBoundary(max)

\* The child throws while rendering: the ErrorBoundary shows the fallback.
ChildThrows ==
    /\ ~didCatch
    /\ ~resetPending
    /\ onErrorCalls < MaxErrors
    /\ didCatch' = TRUE
    /\ onErrorCalls' = onErrorCalls + 1
    /\ errorContext' = handleError(retryCount).context.retryCount
    /\ UNCHANGED <<maxRetries, retryCount, updates, resetPending, onRetryCalls,
                   typewriterVars, toastVars, queryVars>>

\* resetErrorBoundary() of the fallback's props, from the Try Again button or
\* from a fallback of the application: while the boundary holds an error it
\* calls onReset, which is handleReset, and queues its own reset. React has
\* not rendered since, so the handler is the one of the last render.
ResetErrorBoundary ==
    /\ didCatch
    /\ updates < MaxBatch
    /\ LET b == handleReset(Boundary)
       IN  /\ updates' = b.updates
           /\ onRetryCalls' = b.onRetryCalls
    /\ resetPending' = TRUE
    /\ UNCHANGED <<maxRetries, retryCount, didCatch, onErrorCalls, errorContext,
                   typewriterVars, toastVars, queryVars>>

\* React renders: the queued updaters are applied to retryCount in order, the
\* boundary renders its child again, and the child throws again, which the
\* handleError of this render reports, or does not.
RenderBoundary ==
    /\ resetPending
    /\ retryCount' = retryCount + updates
    /\ updates' = 0
    /\ resetPending' = FALSE
    /\ \/ /\ onErrorCalls < MaxErrors
          /\ didCatch' = TRUE
          /\ onErrorCalls' = onErrorCalls + 1
          /\ errorContext' = handleError(retryCount').context.retryCount
       \/ /\ didCatch' = FALSE
          /\ UNCHANGED <<onErrorCalls, errorContext>>
    /\ UNCHANGED <<maxRetries, onRetryCalls, typewriterVars, toastVars, queryVars>>

BoundaryNext ==
    \/ ChildThrows
    \/ ResetErrorBoundary
    \/ RenderBoundary

BoundarySpec == BoundaryInit /\ [][BoundaryNext]_vars

\* -------------------------------------------------- useTypewriter: its steps
\* The state after a callback that left the hook as s; the props stay.
CommitTyping(s) ==
    /\ displayText' = s.displayText
    /\ status' = s.status
    /\ indexRef' = s.indexRef
    /\ timeoutRef' = s.timeoutRef
    /\ textRef' = s.textRef
    /\ charTimers' = s.charTimers

\* The component is mounted with any props.
TypewriterInit ==
    /\ InitManager
    /\ env = CHOOSE r \in Regimes : r.name = "queue"
    /\ InitQuery(NoFilters)
    /\ limit = PageSize
    /\ MountBoundary(DefaultMaxRetries)
    /\ \E p \in AllProps : MountTypewriter(p)

\* start(), pause(), resume(), reset() of the last render
Start ==
    /\ CommitTyping(startTyping(Hook, Props))
    /\ UNCHANGED <<text, speed, autoStart, delayCharacters, boundaryVars, toastVars, queryVars>>

PauseTyping ==
    /\ CommitTyping(pauseTyping(Hook))
    /\ UNCHANGED <<text, speed, autoStart, delayCharacters, boundaryVars, toastVars, queryVars>>

ResumeTyping ==
    /\ CommitTyping(resumeTyping(Hook, Props))
    /\ UNCHANGED <<text, speed, autoStart, delayCharacters, boundaryVars, toastVars, queryVars>>

Reset ==
    /\ CommitTyping(reset(Hook))
    /\ UNCHANGED <<text, speed, autoStart, delayCharacters, boundaryVars, toastVars, queryVars>>

\* A character timer fires. A change of speed or delay characters cancels the
\* timer (Rerender), so the callback is the typeChar of the last render.
CharTimer ==
    \E u \in charTimers :
        /\ CommitTyping(typeChar([Hook EXCEPT !.charTimers = @ \ {u}], Props))
        /\ UNCHANGED <<text, speed, autoStart, delayCharacters, boundaryVars, toastVars,
                       queryVars>>

\* The component is rendered with other props: startTyping is another
\* function, so the effect's cleanup runs and then the effect.
Rerender ==
    \E p \in AllProps \ {Props} :
        LET s == effect(effectCleanup(Hook), p)
        IN  /\ text' = p.text
            /\ speed' = p.speed
            /\ autoStart' = p.autoStart
            /\ delayCharacters' = p.delayCharacters
            /\ CommitTyping(s)
            /\ UNCHANGED <<boundaryVars, toastVars, queryVars>>

TypewriterNext ==
    \/ Start
    \/ PauseTyping
    \/ ResumeTyping
    \/ Reset
    \/ CharTimer
    \/ Rerender

TypewriterSpec == TypewriterInit /\ [][TypewriterNext]_vars

\* ------------------------------------------------------------- properties
Tracked == IdsOf(visibleToasts) \cup IdsOf(queuedToasts)
\* The toasts, capacity and timer bookkeeping of two manager states agree.
SameManagerState(s, r) ==
    /\ s.visibleToasts = r.visibleToasts
    /\ s.queuedToasts = r.queuedToasts
    /\ s.maxToasts = r.maxToasts
    /\ s.timers = r.timers
    /\ s.remainingTime = r.remainingTime
    /\ s.startTime = r.startTime
    /\ s.pending = r.pending
\* The toasts an addToast call may be given in this run.
NewToasts ==
    {[id |-> nextId, variant |-> v, duration |-> d, announceToScreenReader |-> a] :
        v \in env.variants, d \in env.durations, a \in env.announce}

\* C1 (as claimed): in every reachable state the number of visible toasts is
\* at most maxToasts.
C1_VisibleWithinMax == Len(visibleToasts) <= maxToasts

\* C1 (amended): no operation raises the number of visible toasts above the
\* current maxToasts: after every step either the visible toasts number at most
\* maxToasts, or no toast became visible in the step (the count is above
\* maxToasts only because setMaxToasts lowered maxToasts below it).
C1_NeverShownBeyondMax ==
    [][\/ Len(visibleToasts') <= maxToasts'
       \/ IdsOf(visibleToasts') \subseteq IdsOf(visibleToasts)]_vars

\* C1 witness: setMaxToasts has lowered the capacity below the number of
\* visible toasts.
C1_Witness == Len(visibleToasts) > maxToasts

\* C2 (as claimed): in every reachable state with a visible id and a non-empty
\* queue, dismissToast(id) moves exactly the front of the queue to the end of
\* the visible toasts, and the visible count is as before.
C2_DismissBackfills ==
    \A id \in IdsOf(visibleToasts) :
        Len(queuedToasts) > 0 =>
            LET s == dismissToast(Mgr, id)
            IN  /\ s.visibleToasts = Append(FilterOut(visibleToasts, id), Head(queuedToasts))
                /\ s.queuedToasts = Tail(queuedToasts)
                /\ Len(s.visibleToasts) = Len(visibleToasts)

\* C2 (amended): the same, in the states where the visible toasts number at
\* most maxToasts.
C2_DismissBackfillsWithinMax ==
    \A id \in IdsOf(visibleToasts) :
        (Len(queuedToasts) > 0 /\ Len(visibleToasts) <= maxToasts) =>
            LET s == dismissToast(Mgr, id)
            IN  /\ s.visibleToasts = Append(FilterOut(visibleToasts, id), Head(queuedToasts))
                /\ s.queuedToasts = Tail(queuedToasts)
                /\ Len(s.visibleToasts) = Len(visibleToasts)

\* C2 witness: a toast has been promoted from a queue that still holds another
\* toast, with the visible toasts at capacity.
C2_Witness ==
    /\ Len(queuedToasts) > 0
    /\ Len(visibleToasts) = maxToasts
    /\ \E i \in 1..Len(visibleToasts) : visibleToasts[i].id > queuedToasts[1].id

\* C3: an addToast call at capacity leaves the visible toasts alone and puts
\* an error toast at the front of the queue, any other toast at its end; with
\* maxToasts = 1, adding success, info, error leaves the queue [error, info].
C3_QueueInsertion ==
    /\ Len(visibleToasts) >= maxToasts =>
           \A toast \in NewToasts :
               LET s == addToast(Mgr, toast)
               IN  /\ s.visibleToasts = visibleToasts
                   /\ s.queuedToasts = IF toast.variant = "error"
                                       THEN <<toast>> \o queuedToasts
                                       ELSE Append(queuedToasts, toast)
    /\ ( /\ maxToasts = 1
         /\ IdsOf(visibleToasts) = {1}
         /\ visibleToasts[1].variant = "success"
         /\ IdsOf(queuedToasts) = {2, 3}
         /\ \E i \in 1..Len(queuedToasts) :
                queuedToasts[i].id = 2 /\ queuedToasts[i].variant = "info"
         /\ \E i \in 1..Len(queuedToasts) :
                queuedToasts[i].id = 3 /\ queuedToasts[i].variant = "error" )
       => (queuedToasts[1].id = 3 /\ queuedToasts[2].id = 2)

\* C3 witness: the queue [error, info] behind one visible success toast.
C3_Witness ==
    /\ maxToasts = 1
    /\ Len(visibleToasts) = 1 /\ visibleToasts[1].variant = "success"
    /\ Len(queuedToasts) = 2
    /\ queuedToasts[1].variant = "error" /\ queuedToasts[1].id = 3
    /\ queuedToasts[2].variant = "info" /\ queuedToasts[2].id = 2

\* C4: the time a visible toast's timer has been running and the time it has
\* left always add up to its duration d: while the timer runs it is due when
\* the running time reaches d (so the timer a resume schedules is d minus the
\* time run so far), and while it is paused the remaining time is d minus the
\* time run so far (0 once that time has reached d).
C4_TimerAccounting ==
    \A k \in 1..Len(visibleToasts) :
        LET toast == visibleToasts[k]
            left  == toast.duration - running[toast.id]
        IN  toast.duration > 0 =>
                IF toast.id \in DOMAIN timers
                THEN \E t \in pending : /\ t.h = timers[toast.id]
                                        /\ t.id = toast.id
                                        /\ t.due - now = left
                ELSE /\ toast.id \in DOMAIN remainingTime
                     /\ remainingTime[toast.id] = IF left > 0 THEN left ELSE 0

\* C4 witness: a timer that ran, was paused before it was due, was resumed
\* and has run again since.
C4_Witness ==
    \E k \in 1..Len(visibleToasts) :
        LET toast == visibleToasts[k]
        IN  /\ toast.id \in DOMAIN timers
            /\ remainingTime[toast.id] > 0
            /\ remainingTime[toast.id] < toast.duration
            /\ running[toast.id] > toast.duration - remainingTime[toast.id]

\* C5: dismissToast is idempotent: applied a second time to the same id, or
\* applied to an id that no toast has (unknown, not yet handed out, or
\* retired), it leaves the toasts, maxToasts and the timer bookkeeping as
\* they were.
C5_DismissIdempotent ==
    /\ \A id \in {UnknownId} \cup Ids :
           LET s == dismissToast(Mgr, id)
           IN  SameManagerState(dismissToast(s, id), s)
    /\ \A id \in ({UnknownId} \cup Ids) \ Tracked :
           SameManagerState(dismissToast(Mgr, id), Mgr)

\* C5 witness: a toast has been dismissed or has expired while others wait in
\* the queue.
C5_Witness ==
    /\ \E id \in Ids : id < nextId /\ id \notin Tracked
    /\ Len(queuedToasts) > 0

\* C6: pauseToast and resumeToast applied to an id that is unknown, retired
\* or still queued change nothing and schedule no timer.
C6_PauseResumeNoOp ==
    \A id \in ({UnknownId} \cup Ids) \ IdsOf(visibleToasts) :
        /\ SameManagerState(pauseToast(Mgr, id), Mgr)
        /\ SameManagerState(resumeToast(Mgr, id), Mgr)

\* C6 witness: a toast whose timer has run is retired while an expiring toast
\* is visible.
C6_Witness ==
    /\ \E id \in Ids : id < nextId /\ id \notin Tracked /\ running[id] > 0
    /\ pending # {}

\* C7: dismissAll empties the visible toasts and the queue, cancels every
\* timer and empties the timer bookkeeping, whatever the state; maxToasts
\* stays.
C7_DismissAllClears ==
    LET s == dismissAll(Mgr)
    IN  /\ getStats(s) = [visible |-> 0, queued |-> 0, maxToasts |-> maxToasts]
        /\ s.visibleToasts = <<>> /\ s.queuedToasts = <<>>
        /\ s.pending = {}
        /\ s.timers = EmptyMap /\ s.remainingTime = EmptyMap /\ s.startTime = EmptyMap

\* C7 witness: a state with a queued toast and a running timer.
C7_Witness ==
    /\ Len(queuedToasts) > 0
    /\ pending # {}

\* The toast with the given id in a sequence that holds it.
ToastWithId(seq, id) == seq[CHOOSE k \in 1..Len(seq) : seq[k].id = id]

\* C8 (as claimed): a toast added with announcements enabled while an
\* announcer is registered is announced once, during the addToast call, and a
\* toast that has been announced is not announced again; a toast added with
\* announcements disabled is never announced.
C8_AnnouncedOnceAtAdd ==
    [][/\ nextId' = nextId + 1 =>
              LET toast == ToastWithId(visibleToasts' \o queuedToasts', nextId)
              IN  announced'[nextId] =
                      IF toast.announceToScreenReader /\ announceCallback # None
                      THEN 1 ELSE 0
       /\ \A id \in Ids : announced[id] >= 1 => announced'[id] = announced[id]
       /\ \A id \in IdsOf(visibleToasts' \o queuedToasts') :
              ~ToastWithId(visibleToasts' \o queuedToasts', id).announceToScreenReader
                  => announced'[id] = 0]_vars

\* No identifier occurs twice in visibleToasts \o queuedToasts, and every
\* identifier there has been handed out.
C9_IdsUniqueInv ==
    LET all == visibleToasts \o queuedToasts
    IN  /\ \A i, j \in 1..Len(all) : all[i].id = all[j].id => i = j
        /\ \A i \in 1..Len(all) : all[i].id \in Ids /\ all[i].id < nextId

\* C9: no identifier occurs twice in visibleToasts \o queuedToasts (so no
\* toast is in both), a retired identifier never comes back and a visible
\* toast never returns to the queue.
C9_IdsUnique ==
    /\ []C9_IdsUniqueInv
    /\ [][\A id \in Ids :
              /\ (id < nextId /\ id \notin Tracked) => id \notin Tracked'
              /\ id \in IdsOf(visibleToasts) => id \notin IdsOf(queuedToasts')]_vars

\* C9 witness: one identifier is retired while others are visible and queued.
C9_Witness ==
    /\ \E id \in Ids : id < nextId /\ id \notin Tracked
    /\ Len(visibleToasts) > 0
    /\ Len(queuedToasts) > 0

\* subscribe(cb) calls cb once, with the current visible toasts, and no other
\* callback; the function it returns removes cb.
C10_SubscribeCallsOnce ==
    \A c \in Callbacks :
        LET s == subscribe(Mgr, c)
        IN  /\ s.notified[c] = 1
            /\ s.lastSeen[c] = visibleToasts
            /\ \A o \in Callbacks \ {c} : s.notified[o] = 0
            /\ s.listeners = listeners \cup {c}
            /\ unsubscribe(s, c).listeners = listeners \ {c}

\* C10: subscribe(cb) calls cb exactly once, at once, with the current visible
\* toasts; once cb is unsubscribed no operation calls it (until it is
\* subscribed again), while a callback that stays subscribed is called with
\* the new visible toasts whenever they change.
C10_Subscription ==
    /\ []C10_SubscribeCallsOnce
    /\ [][\A c \in Callbacks :
              /\ c \notin listeners' => notified'[c] = 0
              /\ (c \in listeners /\ c \in listeners' /\ visibleToasts' # visibleToasts)
                     => (notified'[c] >= 1 /\ lastSeen'[c] = visibleToasts')]_vars

\* C10 witness: one callback has unsubscribed, and an operation has called the
\* other with a non-empty sequence.
C10_Witness ==
    \E c, o \in Callbacks :
        /\ c \in unsubs /\ c \notin listeners
        /\ o \in listeners /\ notified[o] >= 1 /\ Len(lastSeen[o]) > 0

\* C11: setMaxToasts(n) sets maxToasts to n and promotes exactly
\* min(len(queued), max(0, n - len(visible))) toasts: they are the front of the
\* queue, appended to the visible toasts in queue order; afterwards the queue
\* is empty or the visible toasts number at least n; and each promoted toast
\* that has a duration has its timer started at that moment, for its whole
\* duration.
C11_SetMaxToastsPromotes ==
    \A n \in 0..DefaultMaxToasts :
        LET r    == setMaxToasts(Mgr, n)
            free == IF n > Len(visibleToasts) THEN n - Len(visibleToasts) ELSE 0
            k    == IF Len(queuedToasts) < free THEN Len(queuedToasts) ELSE free
        IN  /\ r.maxToasts = n
            /\ r.visibleToasts = visibleToasts \o SubSeq(queuedToasts, 1, k)
            /\ r.queuedToasts = SubSeq(queuedToasts, k + 1, Len(queuedToasts))
            /\ Len(r.queuedToasts) = 0 \/ Len(r.visibleToasts) >= n
            /\ \A i \in 1..k :
                   LET toast == queuedToasts[i]
                   IN  IF toast.duration > 0
                       THEN /\ toast.id \in DOMAIN r.timers
                            /\ r.startTime[toast.id] = now
                            /\ r.remainingTime[toast.id] = toast.duration
                            /\ [h |-> r.timers[toast.id], id |-> toast.id,
                                due |-> now + toast.duration] \in r.pending
                       ELSE /\ toast.id \notin DOMAIN r.timers
                            /\ \A t \in r.pending : t.id # toast.id

\* C11 witness: two toasts wait in the queue under a capacity that
\* setMaxToasts has lowered to one, so that raising it promotes both at once.
C11_Witness ==
    /\ Len(queuedToasts) >= 2
    /\ maxToasts = 1
    /\ Len(visibleToasts) = 1

\* A setMaxToasts(n) call with n below the number of visible toasts changes
\* maxToasts and nothing else.
C12_ShrinkFrame ==
    \A n \in 0..DefaultMaxToasts :
        n < Len(visibleToasts) =>
            SameManagerState(setMaxToasts(Mgr, n), [Mgr EXCEPT !.maxToasts = n])

\* C12: setMaxToasts(n) with n below the number of visible toasts leaves the
\* visible toasts, the queue and every timer as they are (nothing is evicted,
\* nothing goes back to the queue), and afterwards a step promotes queued
\* toasts only if the visible toasts it leaves in place number fewer than
\* maxToasts, and then to no more than maxToasts visible toasts.
C12_ShrinkKeepsAll ==
    /\ []C12_ShrinkFrame
    /\ [][LET promoted == IdsOf(queuedToasts) \cap IdsOf(visibleToasts')
               kept     == IdsOf(visibleToasts) \cap IdsOf(visibleToasts')
           IN  promoted # {} =>
                   /\ Cardinality(kept) < maxToasts'
                   /\ Len(visibleToasts') <= maxToasts']_vars

\* C12 witness: setMaxToasts has lowered the capacity below the number of
\* visible toasts while a toast waits in the queue.
C12_Witness ==
    /\ Len(visibleToasts) > maxToasts
    /\ Len(queuedToasts) > 0

\* The manager holds the toasts of k add calls made to an empty manager with
\* no dismissal or expiry since: for some first id b, with k = nextId - b, the
\* toasts b..nextId-1 are all tracked, the first min(k, maxToasts) of them are
\* visible in add order, and the other max(0, k - maxToasts) are queued.
C13_AddOnlyShape ==
    \E b \in 1..nextId :
        LET k == nextId - b
            m == IF k < maxToasts THEN k ELSE maxToasts
        IN  /\ Tracked = b..(nextId - 1)
            /\ Len(visibleToasts) = m
            /\ \A i \in 1..m : visibleToasts[i].id = b + i - 1
            /\ Len(queuedToasts) = k - m
            /\ Len(visibleToasts) <= maxToasts

\* C13: with maxToasts fixed, k addToast calls to an empty manager, with no
\* dismissal or expiry in between, leave exactly min(k, maxToasts) toasts
\* visible (the first ones added, in add order) and max(0, k - maxToasts)
\* queued: an empty manager has this shape with k = 0, and every addToast call
\* keeps it.
C13_AddOnly ==
    /\ [](Tracked = {} => C13_AddOnlyShape)
    /\ [][(C13_AddOnlyShape /\ nextId' = nextId + 1) =>
              (C13_AddOnlyShape' /\ maxToasts' = maxToasts)]_vars

\* C13 witness: more toasts were added to the empty manager than maxToasts, and
\* the ones beyond maxToasts are queued.
C13_Witness ==
    /\ C13_AddOnlyShape
    /\ Tracked = 1..(nextId - 1)
    /\ Len(visibleToasts) = maxToasts
    /\ Len(queuedToasts) >= 2

\* --------------------------------------------- properties: paginated fetch
\* The page fetched last.
LastPage == pages[Len(pages)]

\* C14: for every page the query holds last, getNextPageParam returns
\* undefined exactly when the page's hasNextPage, as parseResponse computed
\* it, is false.
C14_NextParamMatchesFlag ==
    pages # <<>> =>
        (getNextPageParam(LastPage, pages) = Undefined <=> ~LastPage.hasNextPage)

\* C15: once getNextPageParam returns undefined for the pages the query
\* holds, no fetch is in flight and, as long as the filter set stays the same,
\* no step (a fetchNextPage call among them) issues a request or changes the
\* page list.
C15_NoFetchAfterExhaustion ==
    [][(/\ pages # <<>>
        /\ getNextPageParam(LastPage, pages) = Undefined
        /\ filters' = filters)
       => (/\ request = <<>>
           /\ request' = <<>>
           /\ pages' = pages
           /\ pageParams' = pageParams)]_vars

\* C15 witness: two pages were fetched and getNextPageParam returns undefined
\* for them, so that fetchNextPage is enabled and does nothing.
C15_Witness ==
    /\ Len(pages) >= 2
    /\ request = <<>>
    /\ getNextPageParam(LastPage, pages) = Undefined

\* The value of the skip parameter of a URL.
SkipOf(url) == url.params[CHOOSE i \in 1..Len(url.params) : url.params[i].key = "skip"].value

\* C16: the first request is for skip = initialPageParam = 0 and the request
\* after k fetched pages is for skip = k * limit, whatever the number of items
\* of those pages; and getNextPageParam returns undefined as soon as that
\* offset is at or beyond the total the last page reported, the offset
\* otherwise.
C16_OffsetsByPageCount ==
    /\ initialPageParam = 0
    /\ \A i \in 1..Len(pageParams) : pageParams[i] = (i - 1) * limit
    /\ Len(pageParams) = Len(pages)
    /\ request # <<>> =>
           /\ request[1].pageParam = Len(pages) * limit
           /\ SkipOf(request[1].url) = Len(pages) * limit
    /\ (pages # <<>> /\ LastPage.total # Undefined) =>
           getNextPageParam(LastPage, pages) =
               IF Len(pages) * limit >= LastPage.total THEN Undefined
               ELSE Len(pages) * limit

\* C16 witness: the first page held fewer items than the page size and the
\* next request, for skip = limit, is in flight.
C16_Witness ==
    /\ Len(pages) = 1
    /\ Len(pages[1].items) < limit
    /\ pages[1].items # UndefinedItems
    /\ request # <<>>
    /\ request[1].pageParam = limit

\* The keys of a URL's query parameters, in order.
KeysOf(url) == [i \in 1..Len(url.params) |-> url.params[i].key]
\* The locator the claim gives for filter set f and offset skip is url.
Routes(f, skip, url) ==
    /\ url.params[1] = [key |-> "limit", value |-> limit]
    /\ url.params[2] = [key |-> "skip", value |-> skip]
    /\ IF "search" \in DOMAIN f /\ f.search # ""
       THEN /\ url.path = <<"products", "search">>
            /\ KeysOf(url) = <<"limit", "skip", "q">>
            /\ url.params[3].value = formEncode(f.search)
       ELSE IF "category" \in DOMAIN f /\ f.category # ""
       THEN /\ url.path = <<"products", "category", f.category>>
            /\ KeysOf(url) = <<"limit", "skip">>
       ELSE /\ url.path = <<"products">>
            /\ KeysOf(url) = <<"limit", "skip">>

\* C17: buildURL selects the locator by filter: a non-empty search gives
\* /products/search with limit, skip and q, also when a category is set;
\* otherwise a non-empty category gives /products/category/{category} with
\* limit and skip; otherwise /products with limit and skip. The URLs of the
\* same filters for two offsets differ in the value of skip only. This holds
\* of the URL of every request issued and of every filter set and offset.
C17_BuildURLRoutes ==
    /\ request # <<>> => Routes(filters, request[1].pageParam, request[1].url)
    /\ \A f \in FilterSets, skip \in 0..MaxTotal :
           LET url == buildURL(f, skip)
           IN  /\ Routes(f, skip, url)
               /\ \A other \in 0..MaxTotal :
                      LET url2 == buildURL(f, other)
                      IN  /\ url2.path = url.path
                          /\ KeysOf(url2) = KeysOf(url)
                          /\ \A i \in 1..Len(url.params) :
                                 url.params[i].key # "skip" =>
                                     url2.params[i] = url.params[i]
                          /\ SkipOf(url2) = other

\* C17 witness: a request beyond the first page is in flight for a filter set
\* with both a search and a category.
C17_Witness ==
    /\ request # <<>>
    /\ request[1].pageParam > 0
    /\ Truthy(filters, "search")
    /\ Truthy(filters, "category")

\* The items of the first n pages, one page after the other.
RECURSIVE ItemsUpTo(_)
ItemsUpTo(n) == IF n = 0 THEN <<>> ELSE ItemsUpTo(n - 1) \o pages[n].items

\* C18: in the aggregate view of the pages fetched so far, items is the
\* concatenation of the pages' items in fetch order, total is the last page's
\* total and hasNextPage the last page's flag, whatever the earlier pages
\* reported; without a page, total is 0 and hasNextPage is false.
C18_AggregateView ==
    LET view == select(Data)
    IN  /\ view.items = ItemsUpTo(Len(pages))
        /\ pages = <<>> => (view.total = 0 /\ ~view.hasNextPage)
        /\ pages # <<>> =>
               /\ view.total = LastPage.total
               /\ view.hasNextPage = LastPage.hasNextPage

\* The fetcher rejects for each failure of the transport, with an APIError
\* that tells the failures apart, and queryFn rejects with it.
C19_FailureIsError ==
    request # <<>> =>
        \A outcome \in Outcomes(request[1].pageParam) :
            outcome.kind \in {"network", "timeout", "http"} =>
                LET result == queryFn(filters, request[1].pageParam, outcome)
                IN  /\ ~result.ok
                    /\ result.error.name = "APIError"
                    /\ result.error.status =
                           CASE outcome.kind = "http" -> outcome.status
                             [] outcome.kind = "timeout" -> 408
                             [] outcome.kind = "network" -> Undefined

\* C19: when the fetch for a page fails (network error, timeout, non-success
\* HTTP status), queryFn rejects with an error that tells the failure, and
\* the step that ends a page fetch with an error appends no page: the pages
\* held, their parameters and their aggregate view are unchanged.
C19_FailureSurfaced ==
    /\ []C19_FailureIsError
    /\ [][(request # <<>> /\ request' = <<>> /\ filters' = filters /\ error' # <<>>) =>
              /\ pages' = pages
              /\ pageParams' = pageParams
              /\ select(Data)' = select(Data)]_vars

\* C19 witness: the fetch of a page after the first has failed with an
\* APIError, and the pages fetched before are still held.
C19_Witness ==
    /\ pages # <<>>
    /\ request = <<>>
    /\ error # <<>>
    /\ error[1].name = "APIError"

\* C20: a response body without the assumed shape (products, total, skip or
\* limit missing, or the body null) makes parseResponse throw, so that queryFn
\* rejects and no page with undefined items or total is ever held.
C20_MalformedResponseThrows ==
    /\ \A i \in 1..Len(pages) :
           pages[i].items # UndefinedItems /\ pages[i].total # Undefined
    /\ request # <<>> =>
           \A body \in MalformedResponses(request[1].pageParam) :
               ~queryFn(filters, request[1].pageParam,
                        [kind |-> "ok", body |-> body, status |-> 200,
                         statusText |-> "OK"]).ok

\* ------------------------------------------------ properties: promotion order
\* C21: the queue is promoted from its front, so the order of the queue is the
\* order of promotion: of two toasts queued together an error toast is ahead
\* of a toast of another variant, and of two toasts of the same class (both
\* error, or both not) the one added first (the smaller id) is ahead.
C21_ErrorPrioritizedFIFO ==
    \A i, j \in 1..Len(queuedToasts) :
        i < j =>
            LET a == queuedToasts[i]
                b == queuedToasts[j]
            IN  /\ ~(a.variant # "error" /\ b.variant = "error")
                /\ ((a.variant = "error") = (b.variant = "error")) => a.id < b.id

\* ------------------------------------------------ properties: timer hygiene
\* The visible toasts that expire: those with duration > 0.
ExpiringIds == {visibleToasts[k].id : k \in {i \in 1..Len(visibleToasts) :
                                               visibleToasts[i].duration > 0}}

\* The timer bookkeeping of a state: timers, remaining times and start times
\* belong to visible toasts that expire.
C22_TimersOnlyForRunningToastsInv ==
    /\ \A t, u \in pending : t.id = u.id => t = u
    /\ \A t \in pending : /\ t.id \in ExpiringIds
                          /\ t.id \in DOMAIN timers
                          /\ timers[t.id] = t.h
    /\ DOMAIN timers \subseteq {t.id : t \in pending}
    /\ DOMAIN remainingTime \subseteq ExpiringIds
    /\ DOMAIN startTime \subseteq ExpiringIds
    /\ \A t \in pending :
           /\ t.id \notin IdsOf(queuedToasts)
           /\ \A k \in 1..Len(visibleToasts) :
                  visibleToasts[k].id = t.id => visibleToasts[k].duration > 0

\* C22: a toast has at most one pending timer; a pending timer belongs to a
\* visible toast with duration > 0 that is not paused (its handle is the one
\* stored for the toast); remaining-time and start-time entries exist only
\* for visible toasts with duration > 0. So no due timer can remove a queued
\* toast, a paused toast or a toast with duration 0.
C22_TimersOnlyForRunningToasts == []C22_TimersOnlyForRunningToastsInv

\* C22 witness: a visible toast is paused after its timer has run for a while:
\* it has time left and no timer is pending.
C22_Witness ==
    \E id \in ExpiringIds :
        /\ id \notin DOMAIN timers
        /\ remainingTime[id] > 0
        /\ running[id] > 0
        /\ pending = {}

\* What the callback of each pending timer would do in a state, and when the
\* timers of the toasts it promotes would be due.
C23_CountdownFromPromotionInv ==
    /\ \A t \in pending : t.due = startTime[t.id] + remainingTime[t.id]
    /\ \A k \in 1..Len(queuedToasts) :
           /\ queuedToasts[k].id \notin DOMAIN startTime
           /\ \A t \in pending : t.id # queuedToasts[k].id
    /\ \A t \in pending :
           LET s == dismissToast([Mgr EXCEPT !.pending = @ \ {t}], t.id)
               promoted == Len(s.visibleToasts) - Len(FilterOut(visibleToasts, t.id))
           IN  /\ s = dismissToast(Mgr, t.id)
               /\ t.id \notin IdsOf(s.visibleToasts)
               /\ s.visibleToasts = FilterOut(visibleToasts, t.id)
                                       \o SubSeq(queuedToasts, 1, promoted)
               /\ s.queuedToasts = SubSeq(queuedToasts, promoted + 1, Len(queuedToasts))
               /\ \A c \in listeners : s.notified[c] = 1 + promoted
               /\ \A k \in 1..promoted :
                      LET q == queuedToasts[k]
                      IN  q.duration > 0 =>
                              /\ s.startTime[q.id] = now
                              /\ s.remainingTime[q.id] = q.duration
                              /\ \E u \in s.pending : /\ u.id = q.id
                                                      /\ u.h = s.timers[q.id]
                                                      /\ u.due = now + q.duration

\* C23: the countdown of a toast starts when it is shown. While a toast is
\* queued it has no timer and no start time; when a due timer removes a
\* visible toast and a queued toast with duration d > 0 takes the free slot,
\* that toast's start time is the time of the promotion and its timer is due
\* d later; every pending timer is due at start time plus remaining time. The
\* timer's callback has the effect of dismissToast(id): the toast leaves the
\* visible toasts, the subscribers are called, the queue is processed.
C23_CountdownFromPromotion == []C23_CountdownFromPromotionInv

\* C23 witness: time has passed, the timer of a visible toast is due, no slot
\* is free and a toast with duration > 0 waits at the front of the queue for a
\* subscriber to see.
C23_Witness ==
    /\ now > 0
    /\ \E t \in pending : t.due <= now
    /\ Len(visibleToasts) >= maxToasts
    /\ Len(queuedToasts) > 0
    /\ queuedToasts[1].duration > 0
    /\ listeners # {}

\* ------------------------------------------------ properties: auto-dismissal
\* C24: a visible toast with duration > 0 can always still be removed by its
\* timer: either its timer is pending, or it is paused with time left, so
\* that the resume that follows the pause schedules a timer again. This is
\* what auto-dismissal under every interleaving of pause, resume and the
\* timer callback needs in every state.
C24_TimerCanStillFire ==
    \A id \in ExpiringIds :
        \/ \E t \in pending : t.id = id
        \/ /\ id \in DOMAIN remainingTime
           /\ resumeToast(Mgr, id).pending # {}

\* A state, and the result of each operation applied to it, has no free slot
\* while a toast waits.
C25_NoIdleSlotInv ==
    LET Full(s) == Len(s.queuedToasts) > 0 => Len(s.visibleToasts) >= s.maxToasts
    IN  /\ Full(Mgr)
        /\ \A id \in {UnknownId} \cup Ids :
               /\ Full(dismissToast(Mgr, id))
               /\ Full(pauseToast(Mgr, id))
               /\ Full(resumeToast(Mgr, id))
        /\ \A n \in 1..MaxCap : Full(setMaxToasts(Mgr, n))
        /\ Full(dismissAll(Mgr))

\* ------------------------------------------------ properties: no idle slot
\* C25: no slot is left free while toasts wait: whenever the queue is
\* non-empty the visible toasts fill maxToasts, in the state every operation
\* leaves and in the result of each operation applied to it.
C25_NoIdleSlot == []C25_NoIdleSlotInv

\* C25 witness: a toast has been retired and a toast still waits: the
\* visible toasts fill the capacity exactly.
C25_Witness ==
    /\ Len(queuedToasts) > 0
    /\ Len(visibleToasts) = maxToasts
    /\ Tracked # 1..(nextId - 1)

\* In a state, and in the result of each operation applied to it, what the
\* subscribers received last is the sequence of visible toasts.
C26_SubscribersSeeVisibleInv ==
    LET InSync(s) == \A c \in s.listeners : s.lastSeen[c] = s.visibleToasts
        Silent(s) == /\ s.lastSeen = lastSeen
                     /\ \A c \in Callbacks : s.notified[c] = 0
        toast(v, d) == [id |-> nextId, variant |-> v, duration |-> d,
                        announceToScreenReader |-> TRUE]
    IN  /\ InSync(Mgr)
        /\ InSync(dismissAll(Mgr))
        /\ \A n \in 1..MaxCap : InSync(setMaxToasts(Mgr, n))
        /\ \A id \in {UnknownId} \cup Ids :
               /\ InSync(dismissToast(Mgr, id))
               /\ Silent(pauseToast(Mgr, id))
               /\ Silent(resumeToast(Mgr, id))
        /\ \A v \in env.variants, d \in env.durations :
               LET s == addToast(Mgr, toast(v, d))
               IN  /\ InSync(s)
                   /\ Len(visibleToasts) >= maxToasts =>
                          /\ Silent(s)
                          /\ s.visibleToasts = visibleToasts

\* ------------------------------------------------ properties: subscribers
\* C26: what each subscribed callback received last is the current sequence
\* of visible toasts, in the state every operation leaves and in the result
\* of add, dismiss, dismissAll and setMaxToasts applied to it; pauseToast and
\* resumeToast call no subscriber, and an addToast that only queues the toast
\* calls none and leaves what the subscribers last received as it was.
C26_SubscribersSeeVisible == []C26_SubscribersSeeVisibleInv

\* C26 witness: two callbacks are subscribed and have received the visible
\* toast, and a toast added since waits in the queue.
C26_Witness ==
    /\ listeners = Callbacks
    /\ Len(visibleToasts) > 0
    /\ Len(queuedToasts) > 0
    /\ \A c \in Callbacks : lastSeen[c] = visibleToasts

\* ------------------------------------------------ properties: the fetcher
\* C30: whatever the outcome of the request in flight, a failure of fetcher
\* is an APIError: with the response's status when the status is not a
\* success, with status 408 when the timeout aborted the request, and an
\* APIError as well for a network error and for a success response whose body
\* is not JSON.
C30_FailureIsAPIError ==
    request # <<>> =>
        \A outcome \in Outcomes(request[1].pageParam) :
            LET r == fetcher(request[1].url, outcome)
            IN  /\ r.ok = (outcome.kind = "ok")
                /\ ~r.ok => r.error.name = "APIError"
                /\ outcome.kind = "http" => r.error.status = outcome.status
                /\ outcome.kind = "timeout" => r.error.status = 408

\* ------------------------------------------------ properties: termination
\* C27: against a backend that reports a constant total T, the requests of
\* the adapter with page size L are for the strictly increasing offsets 0, L,
\* 2L, ...; no more than max(1, ceil(T / L)) pages are fetched (a page beyond
\* the first is fetched only for an offset below T); and once that many are
\* held getNextPageParam returns undefined and fetchNextPage requests nothing.
C27_PaginationTerminates ==
    LET T == pages[1].total
        n == Len(pages)
    IN  /\ \A i \in 1..Len(pageParams) : pageParams[i] = (i - 1) * limit
        /\ \A i, j \in 1..Len(pageParams) : i < j => pageParams[i] < pageParams[j]
        /\ request # <<>> /\ pageParams # <<>> =>
               request[1].pageParam > pageParams[Len(pageParams)]
        /\ n > 1 => (n - 1) * limit < T
        /\ n >= 1 =>
               (getNextPageParam(pages[n], pages) = Undefined) = (n * limit >= T)

\* ------------------------------------------------ properties: retry counter
\* C28: retryCount stays within 0..maxRetries and counts the onRetry calls,
\* whatever resets and renders happen, several resets before a render
\* included; a reset handled when retryCount = maxRetries queues no update and
\* does not call onRetry; the retry button is offered exactly while retryCount
\* < maxRetries, with maxRetries - retryCount attempts left.
C28_RetryCountBounded ==
    /\ retryCount \in 0..maxRetries
    /\ retryCount + updates \in 0..maxRetries
    /\ onRetryCalls = retryCount + updates
    /\ retryCount = maxRetries => handleReset(Boundary) = Boundary
    /\ retryCount < maxRetries =>
           /\ handleReset(Boundary).updates = updates + 1
           /\ handleReset(Boundary).onRetryCalls = onRetryCalls + 1
    /\ canRetry = (attemptsLeft > 0)

\* ------------------------------------------------ properties: typewriter
\* A sequence is a prefix of another.
IsPrefix(a, b) == Len(a) <= Len(b) /\ a = SubSeq(b, 1, Len(a))

\* C29: a character timer is pending exactly while status is "typing";
\* pause changes the hook only in "typing" and resume only in "paused";
\* displayText is a prefix of the text being typed, and is the whole of it
\* when status is "completed".
C29_StatusMachine ==
    /\ (charTimers # {}) = (status = "typing")
    /\ Cardinality(charTimers) <= 1
    /\ status # "typing" => pauseTyping(Hook) = Hook
    /\ status # "paused" => resumeTyping(Hook, Props) = Hook
    /\ IsPrefix(displayText, textRef)
    /\ status = "completed" => displayText = textRef

====
